---------------------------- MODULE Spec2Model ----------------------------
(***************************************************************************)
(* Model of the signal service in src/app.py: the /api/signals handler     *)
(* get_signals, the window planning it does inline, the replay loop, the   *)
(* DeepSeek response parsing of get_deepseek_analysis and calculate_rsi.   *)
(*                                                                         *)
(* Times are integer seconds since the epoch, as in the code.  A response  *)
(* text is a sequence of tokens (see Tokens); a prompt is modelled by the  *)
(* candle list it was rendered from.                                       *)
(***************************************************************************)
EXTENDS Integers, Sequences, FiniteSets, TLC

(***************************************************************************)
(* Program constants.                                                      *)
(***************************************************************************)
DEFAULT_INTERVAL == 60
FetchCount == 50
WarmUp == 49
HourSeconds == 3600
RsiPeriod == 14

(***************************************************************************)
(* Bounds of the model.                                                    *)
(***************************************************************************)
MaxCandles == 52
MaxTextLen == 5
MaxSeriesLen == 15
PriceLevels == 2

\* time.time() at the request: a fixed instant, 1000 hours after the epoch.
Now == 1000 * HourSeconds

\* Offsets (seconds before Now) of the ISO dates a request may carry: around
\* now, around 10 hours back, around the 50 hour cutoff, and beyond it.
TargetOffsets ==
    { h * HourSeconds + s : h \in {-2, 0, 9, 10, 48, 49, 50, 60}, s \in {0, 1} }

\* The values request.args.get('date') can take: absent (None), the empty
\* string, a string fromisoformat rejects, a string it accepts (ts is the
\* epoch second int(target_date.timestamp()) yields).
DateParams ==
    { [kind |-> k, ts |-> 0] : k \in {"none", "empty", "invalid"} }
      \cup { [kind |-> "iso", ts |-> Now - o] : o \in TargetOffsets }

\* The values request.args.get('interval', DEFAULT_INTERVAL) can take.
IntervalParams ==
    { [kind |-> "absent", val |-> 0], [kind |-> "bad", val |-> 0],
      [kind |-> "int", val |-> 5] }

Min(a, b) == IF a < b THEN a ELSE b
Max(a, b) == IF a > b THEN a ELSE b

(***************************************************************************)
(* Response texts of the recommendation collaborator, as token sequences.  *)
(*   FJ  the fence ```json        F   the fence ```                        *)
(*   {   }  braces                N   a JSON scalar, e.g. 42               *)
(*   B   the member "signal": "BUY"                                        *)
(*   M   the member "signal": "MAYBE"                                      *)
(*   P   a word of prose                                                   *)
(***************************************************************************)
Tokens == {"FJ", "F", "{", "}", "B", "M", "N", "P"}
Fences == {"FJ", "F"}

RECURSIVE SeqsUpTo(_, _)
SeqsUpTo(S, n) ==
    IF n = 0 THEN { <<>> }
    ELSE LET shorter == SeqsUpTo(S, n - 1)
         IN  shorter \cup { Append(s, t) : s \in { x \in shorter : Len(x) = n - 1 }, t \in S }

Texts == SeqsUpTo(Tokens, MaxTextLen)

Contains(s, toks) == \E i \in 1..Len(s) : s[i] \in toks

\* Index of the first token of s in toks, 0 when there is none.
FirstIndex(s, toks) ==
    IF Contains(s, toks)
    THEN CHOOSE i \in 1..Len(s) : s[i] \in toks /\ \A j \in 1..(i-1) : s[j] \notin toks
    ELSE 0

LastIndex(s, toks) ==
    IF Contains(s, toks)
    THEN CHOOSE i \in 1..Len(s) : s[i] \in toks /\ \A j \in (i+1)..Len(s) : s[j] \notin toks
    ELSE 0

\* s.split(sep)[1] when sep occurs in s: what follows the first separator
\* (a later .split(...)[0] cuts it at the next one).
AfterFirst(s, toks) == SubSeq(s, FirstIndex(s, toks) + 1, Len(s))

\* s.split(sep)[0]: what precedes the first separator, all of s without one.
BeforeFirst(s, toks) ==
    IF Contains(s, toks) THEN SubSeq(s, 1, FirstIndex(s, toks) - 1) ELSE s

\* json.loads on a token string: the value, or JSONDecodeError (ok = FALSE).
\* A scalar parses to a non-object value; an object has zero or one member.
NoValue == [kind |-> "none", signal |-> "absent"]
json_loads(s) ==
    IF s = <<"N">> THEN [ok |-> TRUE, value |-> [kind |-> "scalar", signal |-> "absent"]]
    ELSE IF s = <<"{", "}">> THEN [ok |-> TRUE, value |-> [kind |-> "object", signal |-> "absent"]]
    ELSE IF s = <<"{", "B", "}">> THEN [ok |-> TRUE, value |-> [kind |-> "object", signal |-> "BUY"]]
    ELSE IF s = <<"{", "M", "}">> THEN [ok |-> TRUE, value |-> [kind |-> "object", signal |-> "MAYBE"]]
    ELSE [ok |-> FALSE, value |-> NoValue]

\* The string handed to the first json.loads: the code-fence extraction.
json_str(content) ==
    IF Contains(content, {"FJ"})
    THEN BeforeFirst(AfterFirst(content, {"FJ"}), Fences)
    ELSE IF Contains(content, Fences)
    THEN BeforeFirst(AfterFirst(content, {"F"}), {"F"})
    ELSE content

\* re.search(r'\{.*\}', content, re.DOTALL): leftmost "{" to the last "}".
re_search(content) ==
    LET a == FirstIndex(content, {"{"})
        b == LastIndex(content, {"}"})
    IN  IF a > 0 /\ b > a
        THEN [found |-> TRUE, group |-> SubSeq(content, a, b)]
        ELSE [found |-> FALSE, group |-> <<>>]

\* The parsing part of get_deepseek_analysis: the returned value, or raised.
ParseContent(content) ==
    LET first == json_loads(json_str(content))
        m == re_search(content)
        second == json_loads(m.group)
    IN  IF first.ok THEN [raised |-> FALSE, value |-> first.value]
        ELSE IF m.found /\ second.ok THEN [raised |-> FALSE, value |-> second.value]
        ELSE [raised |-> TRUE, value |-> NoValue]


\* Texts the recommendation collaborator answers with in a request: the same
\* object raw, in a json fence, in a plain fence and inside prose; an object
\* with an unknown signal and one without; a scalar, raw and fenced; prose.
SampleContents ==
    { <<"{", "B", "}">>, <<"FJ", "{", "B", "}", "F">>, <<"F", "{", "B", "}", "F">>,
      <<"P", "{", "B", "}", "P">>, <<"{", "M", "}">>, <<"{", "}">>,
      <<"N">>, <<"FJ", "N", "F">>, <<"P">> }

\* get_deepseek_analysis(prompt): raises without an API key, raises when the
\* POST fails (transport_ok = FALSE), and otherwise parses the content; every
\* exception leaves as Exception("DeepSeek API error: ...").
get_deepseek_analysis(api_key, transport_ok, content) ==
    IF ~api_key THEN [raised |-> TRUE, value |-> NoValue]
    ELSE IF ~transport_ok THEN [raised |-> TRUE, value |-> NoValue]
    ELSE ParseContent(content)

(***************************************************************************)
(* Window planning (get_signals, "Calculate timestamps").                  *)
(***************************************************************************)
\* if date_param: an absent or empty parameter is falsy.
DateGiven(dp) == dp.kind \notin {"none", "empty"}

\* datetime.fromisoformat(...) raises ValueError on anything but ISO text.
DateParses(dp) == dp.kind = "iso"

fifty_hours_ago(current_time) == current_time - (50 * HourSeconds)

\* Faulty variant: the lower clamp max(1, ...) is forgotten.
candles_to_fetch_for_unclamped(target_timestamp, cutoff) ==
    IF target_timestamp > cutoff
    THEN Min(FetchCount, (target_timestamp - cutoff) \div HourSeconds)
    ELSE FetchCount

candles_to_fetch_for(target_timestamp, cutoff) ==
    IF target_timestamp > cutoff
    THEN LET hours_remaining == (target_timestamp - cutoff) \div HourSeconds
         IN  Min(FetchCount, Max(1, hours_remaining))
    ELSE FetchCount

since_for(target_timestamp, count, ivl) == target_timestamp - (count * ivl * 60)

(***************************************************************************)
(* Collaborators and helpers of the replay.                                *)
(***************************************************************************)
\* What fetch_kraken_candles returns when Kraken answers with n rows: rows
\* in ascending time, one per interval after since (Kraken's ordering; the
\* code keeps the order it receives).
KrakenCandles(n, since_ts, ivl) ==
    [k \in 1..n |-> [timestamp |-> since_ts + k * ivl * 60, close |-> 100 + k]]

\* generate_analysis_prompt(candles): the prompt is a rendering of the frame
\* built from the list it is given, its last row and the row before it.
generate_analysis_prompt(cs) ==
    [window |-> cs,
     latest |-> cs[Len(cs)],
     previous |-> IF Len(cs) > 1 THEN cs[Len(cs) - 1] ELSE cs[Len(cs)]]

\* Faulty variant: replay as soon as one candle is returned.
ReplayMode_one(dp, cs) == DateGiven(dp) /\ Len(cs) >= 1

\* if date_param and len(candles) > 1
ReplayMode(dp, cs) == DateGiven(dp) /\ Len(cs) > 1

\* Faulty variant: the warm-up test off by one (i > 49).
HasEnoughData_strict(idx) == idx > WarmUp

\* if i >= 49 (i is the 0-based loop index)
HasEnoughData(idx) == idx >= WarmUp

\* Faulty variant: the prompt of a replay step is built from every candle.
current_candles_all(cs, idx) == cs

\* candles[:i+1]
current_candles(cs, idx) == SubSeq(cs, 1, idx + 1)

SignalRecord(candle, analysis) ==
    [timestamp |-> candle.timestamp, price |-> candle.close, analysis |-> analysis]

NoResponse == [status |-> 0, total_candles |-> 0, signals |-> <<>>]

\* return jsonify({... 'total_candles': len(candles), 'signals': signals})
OkResponse(cs, sigs) == [status |-> 200, total_candles |-> Len(cs), signals |-> sigs]

\* The error bodies: {'error': ...} with a status, and no signals.
ErrorResponse(code) == [status |-> code, total_candles |-> 0, signals |-> <<>>]

\* Faulty variant: an exception answers with the records computed so far.
OnException_partial(sigs) == [status |-> 200, total_candles |-> Len(sigs), signals |-> sigs]

\* except Exception as e: return jsonify({'error': str(e)}), 500
OnException(sigs) == ErrorResponse(500)

\* Faulty variant: the date's ValueError reaches the outer handler.
OnInvalidDate_server == ErrorResponse(500)

\* except ValueError: return jsonify({'error': 'Invalid date format...'}), 400
OnInvalidDate == ErrorResponse(400)

\* if not candles: return jsonify({'error': 'No candle data found'}), 404
OnNoCandles == ErrorResponse(404)

VARIABLES
    pc,               \* where the request (or the function under test) stands
    interval_param,   \* request.args 'interval'
    date_param,       \* request.args 'date'
    deepseek_api_key, \* whether DEEPSEEK_API_KEY is set
    interval,         \* int(...) of the interval parameter
    candles_to_fetch,
    since,
    candles,          \* what the fetch returned
    mode,             \* the branch taken at the mode test: none, replay, single
    i,                \* the replay loop's index, 0-based
    signals,          \* the list being built
    response,         \* what get_signals returned
    fetch_calls,      \* the calls of fetch_kraken_candles, in order
    rec_calls,        \* the prompts given to get_deepseek_analysis, in order
    content,          \* a response text under parse
    parsed,           \* what the parse made of it
    prices,           \* a close series
    rsi_out           \* calculate_rsi of it

vars == <<pc, interval_param, date_param, deepseek_api_key, mode, interval,
          candles_to_fetch, since, candles, i, signals, response,
          fetch_calls, rec_calls, content, parsed, prices, rsi_out>>

requestVars == <<pc, interval_param, date_param, deepseek_api_key, mode, interval,
                 candles_to_fetch, since, candles, i, signals, response,
                 fetch_calls, rec_calls>>
parserVars == <<content, parsed>>
rsiVars == <<prices, rsi_out>>

NoParse == [done |-> FALSE, raised |-> FALSE, value |-> NoValue]

InitRequestIdle ==
    /\ interval = 0 /\ candles_to_fetch = 0 /\ since = 0
    /\ candles = <<>> /\ mode = "none" /\ i = 0 /\ signals = <<>>
    /\ response = NoResponse
    /\ fetch_calls = <<>> /\ rec_calls = <<>>

Init ==
    /\ pc = "start"
    /\ interval_param \in IntervalParams
    /\ date_param \in DateParams
    /\ deepseek_api_key \in BOOLEAN
    /\ InitRequestIdle
    /\ content = <<>> /\ parsed = NoParse
    /\ prices = <<>> /\ rsi_out = <<>>

(***************************************************************************)
(* get_signals, one action per stretch between collaborator calls.         *)
(***************************************************************************)
IntervalValue(ip) == IF ip.kind = "absent" THEN DEFAULT_INTERVAL ELSE ip.val

\* interval = int(request.args.get('interval', ...)) raises ValueError, which
\* the outer handler turns into the 500 response.
ParseArgsFail ==
    /\ pc = "start"
    /\ interval_param.kind = "bad"
    /\ response' = OnException(signals)
    /\ pc' = "done"
    /\ UNCHANGED <<interval_param, date_param, deepseek_api_key, mode, interval,
                   candles_to_fetch, since, candles, i, signals,
                   fetch_calls, rec_calls, parserVars, rsiVars>>

\* A date that is given and does not parse: the 400 response.
PlanInvalidDate ==
    /\ pc = "start"
    /\ interval_param.kind # "bad"
    /\ DateGiven(date_param) /\ ~DateParses(date_param)
    /\ interval' = IntervalValue(interval_param)
    /\ response' = OnInvalidDate
    /\ pc' = "done"
    /\ UNCHANGED <<interval_param, date_param, deepseek_api_key, mode,
                   candles_to_fetch, since, candles, i, signals,
                   fetch_calls, rec_calls, parserVars, rsiVars>>

\* The window: from the date when one is given, the last 50 candles if not.
PlanWindow ==
    /\ pc = "start"
    /\ interval_param.kind # "bad"
    /\ ~DateGiven(date_param) \/ DateParses(date_param)
    /\ interval' = IntervalValue(interval_param)
    /\ IF DateGiven(date_param)
       THEN /\ candles_to_fetch' =
                  candles_to_fetch_for(date_param.ts, fifty_hours_ago(Now))
            /\ since' = since_for(date_param.ts, candles_to_fetch', interval')
       ELSE /\ candles_to_fetch' = FetchCount
            /\ since' = since_for(Now, FetchCount, interval')
    /\ pc' = "fetch"
    /\ UNCHANGED <<interval_param, date_param, deepseek_api_key, mode, candles, i,
                   signals, response, fetch_calls, rec_calls, parserVars, rsiVars>>

\* params of the GET: 'since' is sent only when truthy.
FetchParams == [interval |-> interval, since |-> IF since # 0 THEN since ELSE 0]

\* Faulty variant: a failed fetch is tried again.
FetchFail_retry ==
    /\ pc = "fetch"
    /\ fetch_calls' = Append(fetch_calls, FetchParams)
    /\ UNCHANGED <<pc, interval_param, date_param, deepseek_api_key, mode, interval,
                   candles_to_fetch, since, candles, i, signals, response,
                   rec_calls, parserVars, rsiVars>>

\* fetch_kraken_candles raises (transport, HTTP status, Kraken error).
FetchFail ==
    /\ pc = "fetch"
    /\ fetch_calls' = Append(fetch_calls, FetchParams)
    /\ response' = OnException(signals)
    /\ pc' = "done"
    /\ UNCHANGED <<interval_param, date_param, deepseek_api_key, mode, interval,
                   candles_to_fetch, since, candles, i, signals, rec_calls,
                   parserVars, rsiVars>>

\* fetch_kraken_candles returns n candles; none is the 404, otherwise the
\* mode is selected.
Fetch(n) ==
    /\ pc = "fetch"
    /\ fetch_calls' = Append(fetch_calls, FetchParams)
    /\ candles' = KrakenCandles(n, since, interval)
    /\ IF candles' = <<>>
       THEN /\ response' = OnNoCandles
            /\ mode' = mode
            /\ pc' = "done"
       ELSE /\ response' = response
            /\ mode' = IF ReplayMode(date_param, candles') THEN "replay" ELSE "single"
            /\ pc' = mode'
    /\ UNCHANGED <<interval_param, date_param, deepseek_api_key, interval,
                   candles_to_fetch, since, i, signals, rec_calls,
                   parserVars, rsiVars>>

\* An iteration of the replay loop that the i >= 49 test skips.
ReplaySkip ==
    /\ pc = "replay"
    /\ i < Len(candles)
    /\ ~HasEnoughData(i)
    /\ i' = i + 1
    /\ UNCHANGED <<pc, interval_param, date_param, deepseek_api_key, mode, interval,
                   candles_to_fetch, since, candles, signals, response,
                   fetch_calls, rec_calls, parserVars, rsiVars>>

\* An iteration that asks for a recommendation on candles[:i+1].
ReplayStep(transport_ok, text) ==
    /\ pc = "replay"
    /\ i < Len(candles)
    /\ HasEnoughData(i)
    /\ LET prompt == generate_analysis_prompt(current_candles(candles, i))
           analysis == get_deepseek_analysis(deepseek_api_key, transport_ok, text)
       IN  /\ rec_calls' = Append(rec_calls, prompt)
           /\ IF analysis.raised
              THEN /\ response' = OnException(signals)
                   /\ pc' = "done"
                   /\ UNCHANGED <<i, signals>>
              ELSE /\ signals' = Append(signals, SignalRecord(candles[i + 1], analysis.value))
                   /\ i' = i + 1
                   /\ UNCHANGED <<pc, response>>
    /\ UNCHANGED <<interval_param, date_param, deepseek_api_key, mode, interval,
                   candles_to_fetch, since, candles, fetch_calls,
                   parserVars, rsiVars>>

\* The loop is over: the 200 response.
ReplayFinish ==
    /\ pc = "replay"
    /\ i = Len(candles)
    /\ response' = OkResponse(candles, signals)
    /\ pc' = "done"
    /\ UNCHANGED <<interval_param, date_param, deepseek_api_key, mode, interval,
                   candles_to_fetch, since, candles, i, signals,
                   fetch_calls, rec_calls, parserVars, rsiVars>>

\* The single signal for the latest candle, and the response.
Single(transport_ok, text) ==
    /\ pc = "single"
    /\ LET prompt == generate_analysis_prompt(candles)
           analysis == get_deepseek_analysis(deepseek_api_key, transport_ok, text)
       IN  /\ rec_calls' = Append(rec_calls, prompt)
           /\ IF analysis.raised
              THEN /\ response' = OnException(signals)
                   /\ UNCHANGED signals
              ELSE /\ signals' = Append(signals, SignalRecord(candles[Len(candles)], analysis.value))
                   /\ response' = OkResponse(candles, signals')
    /\ pc' = "done"
    /\ UNCHANGED <<interval_param, date_param, deepseek_api_key, mode, interval,
                   candles_to_fetch, since, candles, i, fetch_calls,
                   parserVars, rsiVars>>

Next ==
    \/ ParseArgsFail
    \/ PlanInvalidDate
    \/ PlanWindow
    \/ FetchFail
    \/ \E n \in 0..MaxCandles : Fetch(n)
    \/ ReplaySkip
    \/ \E ok \in BOOLEAN, text \in SampleContents : ReplayStep(ok, text)
    \/ ReplayFinish
    \/ \E ok \in BOOLEAN, text \in SampleContents : Single(ok, text)

Spec == Init /\ [][Next]_vars

(***************************************************************************)
(* get_deepseek_analysis on its own: any response text up to MaxTextLen.   *)
(***************************************************************************)
InitParser ==
    /\ pc = "parser"
    /\ interval_param = [kind |-> "absent", val |-> 0]
    /\ date_param = [kind |-> "none", ts |-> 0]
    /\ deepseek_api_key \in BOOLEAN
    /\ InitRequestIdle
    /\ content \in Texts
    /\ parsed = NoParse
    /\ prices = <<>> /\ rsi_out = <<>>

\* The API key is missing: raised before any request is made.
AnalysisNoKey ==
    /\ pc = "parser"
    /\ ~deepseek_api_key
    /\ LET r == get_deepseek_analysis(deepseek_api_key, TRUE, content)
       IN  parsed' = [done |-> TRUE, raised |-> r.raised, value |-> r.value]
    /\ pc' = "no_key"
    /\ UNCHANGED <<interval_param, date_param, deepseek_api_key, mode, interval,
                   candles_to_fetch, since, candles, i, signals, response,
                   fetch_calls, rec_calls, content, rsiVars>>

\* The POST fails: raised, whatever the text would have been.
AnalysisTransportError ==
    /\ pc = "parser"
    /\ deepseek_api_key
    /\ LET r == get_deepseek_analysis(deepseek_api_key, FALSE, content)
       IN  parsed' = [done |-> TRUE, raised |-> r.raised, value |-> r.value]
    /\ pc' = "transport_error"
    /\ UNCHANGED <<interval_param, date_param, deepseek_api_key, mode, interval,
                   candles_to_fetch, since, candles, i, signals, response,
                   fetch_calls, rec_calls, content, rsiVars>>

\* The collaborator answered with content: the text is parsed.
AnalysisOfContent ==
    /\ pc = "parser"
    /\ deepseek_api_key
    /\ LET r == get_deepseek_analysis(deepseek_api_key, TRUE, content)
       IN  parsed' = [done |-> TRUE, raised |-> r.raised, value |-> r.value]
    /\ pc' = "parsed"
    /\ UNCHANGED <<interval_param, date_param, deepseek_api_key, mode, interval,
                   candles_to_fetch, since, candles, i, signals, response,
                   fetch_calls, rec_calls, content, rsiVars>>

NextParser == AnalysisNoKey \/ AnalysisTransportError \/ AnalysisOfContent

SpecParser == InitParser /\ [][NextParser]_vars

(***************************************************************************)
(* calculate_rsi.  The arithmetic is exact (rationals as num/den), with    *)
(* the IEEE-754 outcomes of a division by zero that pandas yields: x/0 is  *)
(* inf for x > 0 and NaN for x = 0.                                        *)
(***************************************************************************)
NaN == [kind |-> "nan", num |-> 0, den |-> 1]
Inf == [kind |-> "inf", num |-> 0, den |-> 1]
Fin(n, d) == [kind |-> "fin", num |-> n, den |-> d]

\* delta = prices.diff(): NaN at the first index (1-based index 1).
\* delta.where(delta > 0, 0): the delta where positive, else 0 (NaN > 0 is False).
gain_at(ps, k) == IF k = 1 THEN 0 ELSE Max(ps[k] - ps[k-1], 0)

\* -delta.where(delta < 0, 0)
loss_at(ps, k) == IF k = 1 THEN 0 ELSE Max(ps[k-1] - ps[k], 0)

RECURSIVE window_sum(_, _, _, _)
window_sum(ps, k, n, isGain) ==
    IF n = 0 THEN 0
    ELSE (IF isGain THEN gain_at(ps, k) ELSE loss_at(ps, k))
           + window_sum(ps, k - 1, n - 1, isGain)

\* rs = gain / loss for the rolling means gainSum/period and lossSum/period
rs_of(gainSum, lossSum) ==
    IF lossSum = 0
    THEN IF gainSum = 0 THEN NaN ELSE Inf
    ELSE Fin(gainSum, lossSum)

\* rsi = 100 - (100 / (1 + rs))
rsi_of(rs) ==
    IF rs.kind = "nan" THEN NaN
    ELSE IF rs.kind = "inf" THEN Fin(100, 1)
    ELSE Fin(100 * rs.num, rs.num + rs.den)

\* calculate_rsi(prices, period): rolling(window=period) is NaN until the
\* window holds period rows (1-based index k >= period).
calculate_rsi(ps, period) ==
    [k \in 1..Len(ps) |->
        IF k < period THEN NaN
        ELSE rsi_of(rs_of(window_sum(ps, k, period, TRUE),
                          window_sum(ps, k, period, FALSE)))]

InitRsi ==
    /\ pc = "rsi"
    /\ interval_param = [kind |-> "absent", val |-> 0]
    /\ date_param = [kind |-> "none", ts |-> 0]
    /\ deepseek_api_key = FALSE
    /\ InitRequestIdle
    /\ content = <<>> /\ parsed = NoParse
    /\ prices = <<>> /\ rsi_out = <<>>

\* One more close in the series.
AppendPrice(p) ==
    /\ pc = "rsi"
    /\ Len(prices) < MaxSeriesLen
    /\ prices' = Append(prices, p)
    /\ rsi_out' = <<>>
    /\ UNCHANGED <<requestVars, parserVars>>

\* df['rsi'] = self.calculate_rsi(df['close'])
ComputeRsi ==
    /\ pc = "rsi"
    /\ prices # <<>>
    /\ rsi_out = <<>>
    /\ rsi_out' = calculate_rsi(prices, RsiPeriod)
    /\ UNCHANGED <<requestVars, parserVars, prices>>

NextRsi == (\E p \in 1..PriceLevels : AppendPrice(p)) \/ ComputeRsi

SpecRsi == InitRsi /\ [][NextRsi]_vars

(***************************************************************************)
(* Properties.                                                             *)
(***************************************************************************)
Answered(code) == pc = "done" /\ response.status = code

\* A recommendation call of this request raised: it was made and left no record.
CallFailed == Len(rec_calls) > Len(signals)

\* C1: a successful request in Replay mode emits len(candles)-49 records when
\* len(candles) >= 50 and none when len(candles) < 50, and the k-th record
\* (0-based) carries the timestamp of candles[49+k].
C1_ReplayCount ==
    (Answered(200) /\ mode = "replay") =>
        /\ Len(response.signals) =
              (IF Len(candles) >= 50 THEN Len(candles) - 49 ELSE 0)
        /\ \A k \in 1..Len(response.signals) :
              response.signals[k].timestamp = candles[49 + k].timestamp

C1_Witness ==
    /\ Answered(200) /\ mode = "replay"
    /\ Len(candles) = 52 /\ Len(response.signals) = 3

\* C2: no look-ahead.  In every state, the record of candles[i] stands beside
\* the prompt that produced it, that prompt was built from the prefix
\* candles[0..i] and from nothing else, and no candle in it is later than the
\* record's timestamp.
C2_NoLookAhead ==
    /\ Len(signals) <= Len(rec_calls)
    /\ \A k \in 1..Len(signals) :
          LET w == rec_calls[k].window
          IN  /\ Len(w) \in 1..Len(candles)
              /\ w = SubSeq(candles, 1, Len(w))
              /\ signals[k].timestamp = candles[Len(w)].timestamp
              /\ \A j \in 1..Len(w) : w[j].timestamp <= signals[k].timestamp
              /\ \A j \in (Len(w) + 1)..Len(candles) :
                    candles[j].timestamp > signals[k].timestamp

C2_Witness ==
    /\ mode = "replay"
    /\ Len(signals) = 2
    /\ Len(rec_calls[1].window) = 50
    /\ Len(candles) = 52

\* C3: in Replay mode a failed recommendation call ends the request with the
\* error response, which carries none of the records computed before it; a
\* response carries all the records of a successful run or none.
C3_NoPartialSuccess ==
    (pc = "done" /\ mode = "replay") =>
        /\ CallFailed => (response.status = 500 /\ response.signals = <<>>)
        /\ \/ response.signals = <<>>
           \/ /\ response.status = 200
              /\ Len(response.signals) = Len(candles) - 49

C3_Witness ==
    /\ pc = "done" /\ mode = "replay"
    /\ CallFailed
    /\ Len(signals) = 2
    /\ response.status = 500 /\ response.signals = <<>>

\* C4: with cutoff = now - 50 hours, a parseable target_date gives
\* candle_count = clamp(floor((target_date - cutoff)/3600), 1, 50) when
\* target_date > cutoff and 50 otherwise, and
\* since = target_date - candle_count * interval_minutes * 60; the count is
\* within 1..50, and target_date = now - 10h gives 40.
C4_Clamped(h) == IF h < 1 THEN 1 ELSE IF h > 50 THEN 50 ELSE h

C4_WindowPlan ==
    (pc # "start" /\ interval_param.kind # "bad" /\ date_param.kind = "iso") =>
        LET target == date_param.ts
            cutoff == Now - 50 * 3600
        IN  /\ candles_to_fetch =
                 (IF target > cutoff
                  THEN C4_Clamped((target - cutoff) \div 3600)
                  ELSE 50)
            /\ since = target - candles_to_fetch * interval * 60
            /\ candles_to_fetch \in 1..50
            /\ (target = Now - 10 * 3600) => candles_to_fetch = 40

C4_Witness ==
    /\ pc = "fetch"
    /\ date_param.kind = "iso" /\ date_param.ts = Now - 10 * 3600
    /\ candles_to_fetch = 40
    /\ since = date_param.ts - 40 * interval * 60

\* C5: no record is ever emitted whose recommendation lacks a signal among
\* BUY, SELL, HOLD (the parsed object is validated).
C5_SignalValidated ==
    \A k \in 1..Len(signals) :
        /\ signals[k].analysis.kind = "object"
        /\ signals[k].analysis.signal \in {"BUY", "SELL", "HOLD"}

\* C6: a response text without any brace-delimited substring never parses:
\* get_deepseek_analysis raises and returns no value.
C6_HasBracePair(text) ==
    \E a, b \in 1..Len(text) : a < b /\ text[a] = "{" /\ text[b] = "}"

C6_NoBracesFails ==
    (pc = "parsed" /\ ~C6_HasBracePair(content)) => parsed.raised

\* C7 as stated: a target_date that is present and does not parse answers
\* with the client error, and no collaborator is called.
C7_Original ==
    (pc = "done" /\ date_param.kind \in {"empty", "invalid"}) =>
        /\ response.status = 400
        /\ fetch_calls = <<>> /\ rec_calls = <<>>

\* C7, amended: for a non-empty target_date that does not parse, no
\* collaborator is called in any state of the request, and the response is
\* the client error 400 whenever the interval parameter is an integer (an
\* interval that is none answers 500 before the date is looked at).
C7_InvalidDate ==
    date_param.kind = "invalid" =>
        /\ fetch_calls = <<>> /\ rec_calls = <<>>
        /\ pc = "done" =>
              response.status = (IF interval_param.kind = "bad" THEN 500 ELSE 400)

C7_Witness ==
    /\ date_param.kind = "invalid"
    /\ Answered(400)
    /\ fetch_calls = <<>> /\ rec_calls = <<>>

\* C8: wherever period deltas are available the RSI is a number in [0, 100],
\* exactly 100 when the window holds no loss (a flat window included) and
\* exactly 0 when it holds losses and no gain.
C8_RsiDefined ==
    rsi_out # <<>> =>
        \A k \in (RsiPeriod + 1)..Len(prices) :
            LET g == window_sum(prices, k, RsiPeriod, TRUE)
                l == window_sum(prices, k, RsiPeriod, FALSE)
                r == rsi_out[k]
            IN  /\ r.kind = "fin"
                /\ 0 <= r.num /\ r.num <= 100 * r.den
                /\ l = 0 => r.num = 100 * r.den
                /\ (g = 0 /\ l > 0) => r.num = 0

\* C9: after a non-empty fetch, Replay is taken exactly when a target_date was
\* given and more than one candle came back; Single makes one recommendation
\* call, on the whole sequence, and a successful Single emits one record, with
\* the timestamp and price of the last candle, however few candles there are.
C9_ModeSelect ==
    /\ mode # "none" =>
          (mode = "replay" <=> (date_param.kind = "iso" /\ Len(candles) > 1))
    /\ mode = "single" =>
          /\ Len(rec_calls) <= 1
          /\ \A k \in 1..Len(rec_calls) : rec_calls[k].window = candles
          /\ pc = "done" => Len(rec_calls) = 1
          /\ Answered(200) =>
                /\ Len(response.signals) = 1
                /\ response.signals[1].timestamp = candles[Len(candles)].timestamp
                /\ response.signals[1].price = candles[Len(candles)].close

C9_Witness ==
    /\ mode = "single" /\ Answered(200)
    /\ date_param.kind = "iso"
    /\ Len(candles) = 1
    /\ Len(response.signals) = 1

\* The parts of C10 that do not count the fetches of a finished request.
C10_Order ==
    /\ Len(fetch_calls) <= 1
    /\ rec_calls # <<>> => (Len(fetch_calls) = 1 /\ candles # <<>>)
    /\ \/ Len(rec_calls) = Len(signals)
       \/ Len(rec_calls) = Len(signals) + 1 /\ Answered(500)
    /\ \A k \in 1..(Len(rec_calls) - 1) :
          Len(rec_calls[k].window) < Len(rec_calls[k + 1].window)
    /\ Answered(404) => (candles = <<>> /\ rec_calls = <<>>)
    /\ Answered(200) => Len(rec_calls) = Len(response.signals)

\* C10 as stated: every request calls the market-data collaborator exactly
\* once, before any recommendation call; the recommendation calls are
\* sequential in ascending index; none is made after a failed or empty
\* fetch; a successful request makes as many as it emits records.
C10_Original ==
    /\ C10_Order
    /\ pc = "done" => Len(fetch_calls) = 1

\* C10, amended: the market-data collaborator is called at most once, before
\* any recommendation call, and exactly once in every request that gets past
\* its parameters (it is not called when the interval or the date is
\* rejected); the rest as stated.
C10_CallOrder ==
    /\ C10_Order
    /\ pc = "done" =>
          Len(fetch_calls) =
              (IF interval_param.kind = "bad" \/ date_param.kind = "invalid"
               THEN 0 ELSE 1)

C10_Witness ==
    /\ Answered(200) /\ mode = "replay"
    /\ Len(fetch_calls) = 1
    /\ Len(rec_calls) = 3 /\ Len(response.signals) = 3

=============================================================================
